---- MODULE Spec2Model ----
(***************************************************************************)
(* Model of src/redis.go: the shared client handle, the keyspace Scan in   *)
(* single-node mode (one sequential cursor loop) and in cluster mode (one  *)
(* goroutine per master, a WaitGroup, a mutex and a first-error slot), and *)
(* the single-key lookups Type and Get.  The store behind the go-redis     *)
(* client is the environment: it answers SCAN, TYPE and GET requests.      *)
(***************************************************************************)
EXTENDS Integers, Sequences, FiniteSets

(***************************************************************************)
(* Bounds of the model.                                                    *)
(***************************************************************************)
NumShards == 2      \* master shards of the cluster
MaxCount == 2       \* largest batch-size hint passed to Scan
MaxBucket == 2      \* largest number of keys the store keeps in one bucket

(***************************************************************************)
(* Keys, patterns and values of the store.                                 *)
(***************************************************************************)
KeyOrder == << <<"a", 1>>, <<"b", 1>>, <<"a", 2>> >>

Keys == {KeyOrder[i] : i \in 1..Len(KeyOrder)}

Patterns == {"a:*", "b:*", "*"}

Matches(key, pat) ==
    \/ pat = "*"
    \/ pat = "a:*" /\ key[1] = "a"
    \/ pat = "b:*" /\ key[1] = "b"

Single == 0

Shards == 1..NumShards

Nodes == {Single} \cup Shards

Counts == 1..MaxCount

\* The master that owns a key (the cluster's slot assignment).
Owner(key) ==
    LET i == CHOOSE j \in 1..Len(KeyOrder) : KeyOrder[j] = key
    IN ((i - 1) % NumShards) + 1

(***************************************************************************)
(* Error values.  The nil error is NoError.                                *)
(***************************************************************************)
NoError == [kind |-> "nil", node |-> -1]

StoreErr(n) == [kind |-> "store", node |-> n]

FnErr(n) == [kind |-> "callback", node |-> n]

MastersErr == [kind |-> "masters", node |-> -1]

(***************************************************************************)
(* The store's side of SCAN.  A node keeps its keys in buckets; a full     *)
(* iteration visits the buckets in cursor order.  One SCAN request visits  *)
(* whole buckets from the cursor on until it has gathered at least count   *)
(* keys or reaches the end of the table, filters what it gathered by the   *)
(* pattern, and returns the cursor of the next bucket (0 at the end).  An  *)
(* iteration may visit an element more than once (revisit).                *)
(***************************************************************************)
SortedKeys(S) == SelectSeq(KeyOrder, LAMBDA k : k \in S)

Min(a, b) == IF a < b THEN a ELSE b

Chunks(seq, b) ==
    [i \in 1..((Len(seq) + b - 1) \div b) |->
        SubSeq(seq, (i - 1) * b + 1, Min(i * b, Len(seq)))]

Layout(S, b, revisit) ==
    LET base == Chunks(SortedKeys(S), b)
    IN IF revisit /\ Len(base) > 0 THEN Append(base, base[1]) ELSE base

RECURSIVE Gather(_, _, _, _)
Gather(buckets, i, acc, cnt) ==
    IF i > Len(buckets) THEN [keys |-> acc, next |-> 0]
    ELSE LET acc2 == acc \o buckets[i]
         IN IF i = Len(buckets) THEN [keys |-> acc2, next |-> 0]
            ELSE IF Len(acc2) >= cnt THEN [keys |-> acc2, next |-> i]
            ELSE Gather(buckets, i + 1, acc2, cnt)

ScanReply(buckets, cur, pat, cnt) ==
    LET g == Gather(buckets, cur + 1, <<>>, cnt)
    IN [keys |-> SelectSeq(g.keys, LAMBDA k : Matches(k, pat)), next |-> g.next]

RECURSIVE Flatten(_)
Flatten(batches) ==
    IF batches = <<>> THEN <<>> ELSE Head(batches) \o Flatten(Tail(batches))

(***************************************************************************)
(* Decisions of Scan's code.                                               *)
(***************************************************************************)
\* variant: the last key of the reply is cut off
FnArgCut(k) == IF Len(k) > 1 THEN SubSeq(k, 1, Len(k) - 1) ELSE k

\* the argument of fn: the key list of the reply, as returned
FnArg(k) == k

\* variant: the loop ends after the first round, whatever the cursor
ScanDoneFirstRound(c) == TRUE

\* if c == 0 { break }
ScanDone(c) == c = 0

\* variant: the cursor is counted up instead of taken from the reply
AdvanceCursorStep(cur, c) == cur + 1

\* cursor = c
AdvanceCursor(cur, c) == c

\* variant: the error is never stored
RecordNothing(slot, err) == slot

\* variant: the slot is overwritten by every failing worker
RecordLast(slot, err) == err

\* if firstErr == nil { firstErr = err }
RecordFirst(slot, err) == IF slot = NoError THEN err ELSE slot

\* variant: the worker returns without wg.Done()
WgDoneMissing(w) == w

\* defer wg.Done()
WgDone(w) == w - 1

\* variant: Scan does not wait for the workers
WaitSkipped(w) == TRUE

\* wg.Wait() returns
WaitPasses(w) == w = 0

\* variant: Scan returns ForEachMaster's err and ignores the slot
ClusterResultEnumOnly(first, enum) == enum

\* variant: Scan returns the slot and ignores ForEachMaster's err
ClusterResultFirstOnly(first, enum) == first

\* if firstErr != nil { return firstErr }; return err
ClusterResult(first, enum) == IF first # NoError THEN first ELSE enum

VARIABLES
    config,         \* the loaded configuration (IsCluster)
    Client,         \* the shared client handle
    ClusterClient,  \* the cluster handle
    pattern, count, \* arguments of the Scan call
    store,          \* node -> the buckets of its table, in cursor order
    pc,             \* position of the goroutine that called Scan
    result,         \* the error Scan returned
    enumErr,        \* err of ForEachMaster
    wg,             \* the WaitGroup counter
    mu,             \* the mutex: 0 when unlocked, else the shard that holds it
    firstErr,       \* the first-error slot
    wpc,            \* node -> position of its scan loop
    cursor,         \* node -> cursor
    reply,          \* node -> last reply of the store (k, c)
    werr,           \* node -> the err its loop failed with
    requests,       \* node -> the cursors it sent to the store, in order
    replies,        \* node -> the key lists the store returned, in order
    delivered,      \* node -> the batches passed to fn, in order
    firstFailer,    \* the first worker that acquired mu to record an error
    kv,             \* key -> what the store holds for it (type, value)
    call,           \* the last Type or Get call: op, key, the store's reply
    out,            \* what that call returned: value and error
    built,          \* number of clients constructed so far
    lastInit,       \* the last InitRedisClient call and what it returned
    loadErr         \* what the last InitRedisConfig call returned

scanVars == <<pattern, count, store, pc, result, enumErr, wg, mu, firstErr,
              wpc, cursor, reply, werr, requests, replies, delivered, firstFailer>>

handleVars == <<config, Client, ClusterClient>>

lookupVars == <<kv, call, out>>

initVars == <<built, lastInit, loadErr>>

vars == <<handleVars, scanVars, lookupVars, initVars>>

(***************************************************************************)
(* Client handles.  Every redis.NewClient / redis.NewClusterClient call    *)
(* makes a new client; NoHandle is the nil handle.                         *)
(***************************************************************************)
Handle(kind, id) == [kind |-> kind, id |-> id]

NoHandle == Handle("nil", 0)

\* The nodes a SCAN sent through a handle can reach: the single node, or, for
\* a cluster client, whichever master the client picks for a keyless command.
ScanTargets(h) == IF h.kind = "cluster" THEN Shards ELSE {Single}

\* The handle an operation is routed to by the cluster flag.
Routed(cfg, client, cluster) == IF cfg.IsCluster THEN cluster ELSE client

(***************************************************************************)
(* Decisions of InitRedisClient's code.                                    *)
(***************************************************************************)
\* variant: the handle is published only when the probe succeeds
PublishIfAlive(old, new, probeOk) == IF probeOk THEN new ELSE old

\* Client = redis.NewClient(...) / redis.NewClusterClient(...), before Ping
Publish(old, new, probeOk) == new

\* ClusterClient = Client.(*redis.ClusterClient)
ClusterHandleOf(old, client) == client

\* variant: the result of the probe is dropped
InitErrIgnored(isCluster, probeOk) == "nil"

\* if err := Client.Ping(ctx).Err(); err != nil { return fmt.Errorf(...) }
InitErr(isCluster, probeOk) ==
    IF probeOk THEN "nil"
    ELSE IF isCluster THEN "failed to connect to Redis Cluster"
    ELSE "failed to connect to Redis"

NoInit == [made |-> FALSE, cluster |-> FALSE, probeOk |-> FALSE, err |-> "nil", id |-> 0]

\* The package state after a successful InitRedisClient under the flag.
Initialised(isCluster) ==
    /\ Client = Handle(IF isCluster THEN "cluster" ELSE "single", 1)
    /\ ClusterClient = IF isCluster THEN Client ELSE NoHandle
    /\ built = 1
    /\ lastInit = [made |-> TRUE, cluster |-> isCluster, probeOk |-> TRUE,
                   err |-> "nil", id |-> 1]
    /\ loadErr = "nil"

NoReply == [keys |-> <<>>, next |-> 0]

\* The store of a single node holds every key; in a cluster each master holds
\* the keys it owns.
StoreOf(isCluster, content, b, revisit) ==
    [n \in Nodes |->
        IF isCluster
        THEN IF n = Single THEN <<>>
             ELSE Layout({k \in content : Owner(k) = n}, b, revisit)
        ELSE IF n = Single THEN Layout(content, b, revisit) ELSE <<>>]

(***************************************************************************)
(* The store's side of TYPE and GET, and what Type and Get make of it.     *)
(***************************************************************************)
Absent == [type |-> "none", val |-> ""]

StringEntry(v) == [type |-> "string", val |-> v]

ListEntry == [type |-> "list", val |-> ""]

Entries == {Absent, StringEntry("v1"), StringEntry(""), ListEntry}

\* TYPE answers the type name, "none" for a key that does not exist.
TypeReply(entry, fail) ==
    IF fail THEN [val |-> "", err |-> "transport"]
    ELSE [val |-> entry.type, err |-> ""]

\* GET answers the value of a string key, redis.Nil for a key that does not
\* exist and WRONGTYPE for a key that holds no string.
GetReply(entry, fail) ==
    IF fail THEN [val |-> "", err |-> "transport"]
    ELSE IF entry.type = "none" THEN [val |-> "", err |-> "redis: nil"]
    ELSE IF entry.type # "string" THEN [val |-> "", err |-> "WRONGTYPE"]
    ELSE [val |-> entry.val, err |-> ""]

\* fmt.Errorf(msg, key[, cause]); the nil error is NoLookupErr.
LookupErr(msg, key, cause) == [msg |-> msg, key |-> key, cause |-> cause]

NoLookupErr == LookupErr("nil", <<>>, "")

\* variant: the "none" answer is returned as a type name
TypeResultRaw(key, r) ==
    IF r.err # ""
    THEN [val |-> "", err |-> LookupErr("failed to get type of key", key, r.err)]
    ELSE [val |-> r.val, err |-> NoLookupErr]

TypeResult(key, r) ==
    IF r.err # ""
    THEN [val |-> "", err |-> LookupErr("failed to get type of key", key, r.err)]
    ELSE IF r.val = "none"
    THEN [val |-> "", err |-> LookupErr("key does not exist", key, "")]
    ELSE [val |-> r.val, err |-> NoLookupErr]

\* variant: redis.Nil is taken for an empty value
GetResultNilAsEmpty(key, r) ==
    IF r.err # "" /\ r.err # "redis: nil"
    THEN [val |-> "", err |-> LookupErr("failed to get value of key", key, r.err)]
    ELSE [val |-> r.val, err |-> NoLookupErr]

GetResult(key, r) ==
    IF r.err # ""
    THEN [val |-> "", err |-> LookupErr("failed to get value of key", key, r.err)]
    ELSE [val |-> r.val, err |-> NoLookupErr]

NoCall == [op |-> "none", key |-> <<>>, reply |-> [val |-> "", err |-> ""]]

NoOut == [val |-> "", err |-> NoLookupErr]
\* No Scan call has started.
ScanIdle ==
    /\ pc = "start"
    /\ result = NoError
    /\ enumErr = NoError
    /\ wg = 0
    /\ mu = 0
    /\ firstErr = NoError
    /\ wpc = [n \in Nodes |-> "idle"]
    /\ cursor = [n \in Nodes |-> 0]
    /\ reply = [n \in Nodes |-> NoReply]
    /\ werr = [n \in Nodes |-> NoError]
    /\ requests = [n \in Nodes |-> <<>>]
    /\ replies = [n \in Nodes |-> <<>>]
    /\ delivered = [n \in Nodes |-> <<>>]
    /\ firstFailer = 0


Init ==
    /\ config \in [IsCluster : BOOLEAN]
    /\ Initialised(config.IsCluster)
    /\ pattern \in Patterns
    /\ count \in Counts
    /\ \E content \in SUBSET Keys, b \in 1..MaxBucket, revisit \in BOOLEAN :
          /\ store = StoreOf(config.IsCluster, content, b, revisit)
          /\ kv = [k \in Keys |-> IF k \in content THEN StringEntry("v1") ELSE Absent]
    /\ call = NoCall
    /\ out = NoOut
    /\ ScanIdle


(***************************************************************************)
(* Scan, cluster mode.                                                     *)
(***************************************************************************)
\* ForEachMaster cannot load the cluster state: it returns the error and
\* calls the callback for no master.
ForEachMasterFail ==
    /\ pc = "start"
    /\ config.IsCluster
    /\ ClusterClient # NoHandle
    /\ enumErr' = MastersErr
    /\ pc' = "wait"
    /\ UNCHANGED <<handleVars, lookupVars, initVars, pattern, count, store, result, wg, mu, firstErr,
                   wpc, cursor, reply, werr, requests, replies, delivered,
                   firstFailer>>

\* variant: the cluster branch rebinds the cluster handle from the shared one
ForEachMasterStartRebind ==
    /\ pc = "start"
    /\ config.IsCluster
    /\ ClusterClient # NoHandle
    /\ ClusterClient' = Client
    /\ pc' = "foreach"
    /\ UNCHANGED <<config, Client, lookupVars, initVars, pattern, count, store, result,
                   enumErr, wg, mu, firstErr, wpc, cursor, reply, werr, requests,
                   replies, delivered, firstFailer>>

ForEachMasterStart ==
    /\ pc = "start"
    /\ config.IsCluster
    /\ ClusterClient # NoHandle
    /\ pc' = "foreach"
    /\ UNCHANGED <<handleVars, lookupVars, initVars, pattern, count, store, result, enumErr, wg, mu,
                   firstErr, wpc, cursor, reply, werr, requests, replies,
                   delivered, firstFailer>>

\* The callback of ForEachMaster for master s: wg.Add(1); go func(master).
Launch(s) ==
    /\ pc = "foreach"
    /\ wpc[s] = "idle"
    /\ wg' = wg + 1
    /\ wpc' = [wpc EXCEPT ![s] = "request"]
    /\ cursor' = [cursor EXCEPT ![s] = 0]
    /\ UNCHANGED <<handleVars, lookupVars, initVars, pattern, count, store, pc, result, enumErr, mu,
                   firstErr, reply, werr, requests, replies, delivered,
                   firstFailer>>

\* Every callback has returned nil: ForEachMaster returns nil.
ForEachMasterReturn ==
    /\ pc = "foreach"
    /\ \A s \in Shards : wpc[s] # "idle"
    /\ enumErr' = NoError
    /\ pc' = "wait"
    /\ UNCHANGED <<handleVars, lookupVars, initVars, pattern, count, store, result, wg, mu, firstErr,
                   wpc, cursor, reply, werr, requests, replies, delivered,
                   firstFailer>>

\* variant: a store error is logged and the request is sent again
WorkerScanFailRetry(s) ==
    /\ wpc[s] = "request"
    /\ requests' = [requests EXCEPT ![s] = Append(@, cursor[s])]
    /\ UNCHANGED <<handleVars, lookupVars, initVars, pattern, count, store, pc, result, enumErr, wg,
                   mu, firstErr, wpc, werr, cursor, reply, replies, delivered,
                   firstFailer>>

\* master.Scan(ctx, cursor, pattern, count).Result() fails.
WorkerScanFail(s) ==
    /\ wpc[s] = "request"
    /\ requests' = [requests EXCEPT ![s] = Append(@, cursor[s])]
    /\ werr' = [werr EXCEPT ![s] = StoreErr(s)]
    /\ wpc' = [wpc EXCEPT ![s] = "lock"]
    /\ UNCHANGED <<handleVars, lookupVars, initVars, pattern, count, store, pc, result, enumErr, wg,
                   mu, firstErr, cursor, reply, replies, delivered, firstFailer>>

\* variant: fn(k) is called with mu held
WorkerScanLocked(s) ==
    /\ wpc[s] = "request"
    /\ mu = 0
    /\ mu' = s
    /\ LET r == ScanReply(store[s], cursor[s], pattern, count)
       IN /\ reply' = [reply EXCEPT ![s] = r]
          /\ replies' = [replies EXCEPT ![s] = Append(@, r.keys)]
          /\ delivered' = [delivered EXCEPT ![s] = Append(@, FnArg(r.keys))]
    /\ requests' = [requests EXCEPT ![s] = Append(@, cursor[s])]
    /\ wpc' = [wpc EXCEPT ![s] = "callback"]
    /\ UNCHANGED <<handleVars, lookupVars, initVars, pattern, count, store, pc, result, enumErr, wg,
                   firstErr, cursor, werr, firstFailer>>

\* variant: the cursor is tested before fn(k), so the batch that comes with
\* the zero cursor is dropped
WorkerScanTestFirst(s) ==
    /\ wpc[s] = "request"
    /\ LET r == ScanReply(store[s], cursor[s], pattern, count)
       IN /\ reply' = [reply EXCEPT ![s] = r]
          /\ replies' = [replies EXCEPT ![s] = Append(@, r.keys)]
          /\ IF ScanDone(r.next)
             THEN /\ wpc' = [wpc EXCEPT ![s] = "exit"]
                  /\ UNCHANGED delivered
             ELSE /\ wpc' = [wpc EXCEPT ![s] = "callback"]
                  /\ delivered' = [delivered EXCEPT ![s] = Append(@, FnArg(r.keys))]
    /\ requests' = [requests EXCEPT ![s] = Append(@, cursor[s])]
    /\ UNCHANGED <<handleVars, lookupVars, initVars, pattern, count, store, pc, result, enumErr,
                   wg, mu, firstErr, cursor, werr, firstFailer>>

\* master.Scan(...).Result() answers k, c; fn(k) is called.
WorkerScan(s) ==
    /\ wpc[s] = "request"
    /\ LET r == ScanReply(store[s], cursor[s], pattern, count)
       IN /\ reply' = [reply EXCEPT ![s] = r]
          /\ replies' = [replies EXCEPT ![s] = Append(@, r.keys)]
          /\ delivered' = [delivered EXCEPT ![s] = Append(@, FnArg(r.keys))]
    /\ requests' = [requests EXCEPT ![s] = Append(@, cursor[s])]
    /\ wpc' = [wpc EXCEPT ![s] = "callback"]
    /\ UNCHANGED <<handleVars, lookupVars, initVars, pattern, count, store, pc, result, enumErr, wg,
                   mu, firstErr, cursor, werr, firstFailer>>

\* fn(k) returns an error.
WorkerFnFail(s) ==
    /\ wpc[s] = "callback"
    /\ werr' = [werr EXCEPT ![s] = FnErr(s)]
    /\ wpc' = [wpc EXCEPT ![s] = "lock"]
    /\ UNCHANGED <<handleVars, lookupVars, initVars, pattern, count, store, pc, result, enumErr, wg,
                   mu, firstErr, cursor, reply, requests, replies, delivered,
                   firstFailer>>

\* variant: a worker gives up as soon as another worker has recorded an error
WorkerFnOkStopOnError(s) ==
    /\ wpc[s] = "callback"
    /\ IF ScanDone(reply[s].next) \/ firstErr # NoError
       THEN /\ wpc' = [wpc EXCEPT ![s] = "exit"]
            /\ UNCHANGED cursor
       ELSE /\ wpc' = [wpc EXCEPT ![s] = "request"]
            /\ cursor' = [cursor EXCEPT ![s] = AdvanceCursor(@, reply[s].next)]
    /\ UNCHANGED <<handleVars, lookupVars, initVars, pattern, count, store, pc, result, enumErr, wg, mu,
                   firstErr, reply, werr, requests, replies, delivered,
                   firstFailer>>

\* fn(k) returns nil: the loop ends at cursor 0, else goes on from c.
WorkerFnOk(s) ==
    /\ wpc[s] = "callback"
    /\ IF ScanDone(reply[s].next)
       THEN /\ wpc' = [wpc EXCEPT ![s] = "exit"]
            /\ UNCHANGED cursor
       ELSE /\ wpc' = [wpc EXCEPT ![s] = "request"]
            /\ cursor' = [cursor EXCEPT ![s] = AdvanceCursor(@, reply[s].next)]
    /\ UNCHANGED <<handleVars, lookupVars, initVars, pattern, count, store, pc, result, enumErr, wg, mu,
                   firstErr, reply, werr, requests, replies, delivered,
                   firstFailer>>

\* variant: the worker goes on without waiting for mu
WorkerLockNoWait(s) ==
    /\ wpc[s] = "lock"
    /\ mu' = s
    /\ wpc' = [wpc EXCEPT ![s] = "locked"]
    /\ firstFailer' = IF firstFailer = 0 THEN s ELSE firstFailer
    /\ UNCHANGED <<handleVars, lookupVars, initVars, pattern, count, store, pc, result, enumErr, wg,
                   firstErr, cursor, reply, werr, requests, replies, delivered>>

\* mu.Lock()
WorkerLock(s) ==
    /\ wpc[s] = "lock"
    /\ mu = 0
    /\ mu' = s
    /\ wpc' = [wpc EXCEPT ![s] = "locked"]
    /\ firstFailer' = IF firstFailer = 0 THEN s ELSE firstFailer
    /\ UNCHANGED <<handleVars, lookupVars, initVars, pattern, count, store, pc, result, enumErr, wg,
                   firstErr, cursor, reply, werr, requests, replies, delivered>>

\* if firstErr == nil { firstErr = err }
WorkerRecord(s) ==
    /\ wpc[s] = "locked"
    /\ mu = s
    /\ firstErr' = RecordFirst(firstErr, werr[s])
    /\ wpc' = [wpc EXCEPT ![s] = "recorded"]
    /\ UNCHANGED <<handleVars, lookupVars, initVars, pattern, count, store, pc, result, enumErr,
                   wg, mu, cursor, reply, werr, requests, replies, delivered,
                   firstFailer>>

\* mu.Unlock(); return
WorkerUnlock(s) ==
    /\ wpc[s] = "recorded"
    /\ mu = s
    /\ mu' = 0
    /\ wpc' = [wpc EXCEPT ![s] = "exit"]
    /\ UNCHANGED <<handleVars, lookupVars, initVars, pattern, count, store, pc, result, enumErr,
                   wg, firstErr, cursor, reply, werr, requests, replies, delivered,
                   firstFailer>>

\* The goroutine returns: the deferred wg.Done() runs.
WorkerExit(s) ==
    /\ wpc[s] = "exit"
    /\ wg' = WgDone(wg)
    /\ wpc' = [wpc EXCEPT ![s] = "done"]
    /\ UNCHANGED <<handleVars, lookupVars, initVars, pattern, count, store, pc, result, enumErr,
                   mu, firstErr, cursor, reply, werr, requests, replies, delivered,
                   firstFailer>>

\* wg.Wait() returns; Scan returns firstErr if set, else ForEachMaster's err.
ClusterReturn ==
    /\ pc = "wait"
    /\ WaitPasses(wg)
    /\ result' = ClusterResult(firstErr, enumErr)
    /\ pc' = "returned"
    /\ UNCHANGED <<handleVars, lookupVars, initVars, pattern, count, store, enumErr, wg, mu, firstErr,
                   wpc, cursor, reply, werr, requests, replies, delivered,
                   firstFailer>>

(***************************************************************************)
(* Scan, single-node mode.                                                 *)
(***************************************************************************)
\* var cursor uint64 = 0
SingleStart ==
    /\ pc = "start"
    /\ ~config.IsCluster
    /\ Client # NoHandle
    /\ cursor' = [cursor EXCEPT ![Single] = 0]
    /\ pc' = "request"
    /\ UNCHANGED <<handleVars, lookupVars, initVars, pattern, count, store, result, enumErr, wg, mu,
                   firstErr, wpc, reply, werr, requests, replies, delivered,
                   firstFailer>>

\* Client.Scan(...).Result() fails: return err.
SingleScanFail ==
    /\ pc = "request"
    /\ requests' = [requests EXCEPT ![Single] = Append(@, cursor[Single])]
    /\ werr' = [werr EXCEPT ![Single] = StoreErr(Single)]
    /\ result' = StoreErr(Single)
    /\ pc' = "returned"
    /\ UNCHANGED <<handleVars, lookupVars, initVars, pattern, count, store, enumErr, wg, mu, firstErr,
                   wpc, cursor, reply, replies, delivered, firstFailer>>

\* Client.Scan(...).Result() answers keys, c; fn(keys) is called.
SingleScan ==
    /\ pc = "request"
    /\ \E n \in ScanTargets(Client) :
       LET r == ScanReply(store[n], cursor[Single], pattern, count)
       IN /\ reply' = [reply EXCEPT ![Single] = r]
          /\ replies' = [replies EXCEPT ![Single] = Append(@, r.keys)]
          /\ delivered' = [delivered EXCEPT ![Single] = Append(@, FnArg(r.keys))]
    /\ requests' = [requests EXCEPT ![Single] = Append(@, cursor[Single])]
    /\ pc' = "callback"
    /\ UNCHANGED <<handleVars, lookupVars, initVars, pattern, count, store, result, enumErr, wg, mu,
                   firstErr, wpc, cursor, werr, firstFailer>>

\* fn(keys) returns an error: return err.
SingleFnFail ==
    /\ pc = "callback"
    /\ werr' = [werr EXCEPT ![Single] = FnErr(Single)]
    /\ result' = FnErr(Single)
    /\ pc' = "returned"
    /\ UNCHANGED <<handleVars, lookupVars, initVars, pattern, count, store, enumErr, wg, mu, firstErr,
                   wpc, cursor, reply, requests, replies, delivered, firstFailer>>

\* fn(keys) returns nil: return nil at cursor 0, else go on from c.
SingleFnOk ==
    /\ pc = "callback"
    /\ IF ScanDone(reply[Single].next)
       THEN /\ result' = NoError
            /\ pc' = "returned"
            /\ UNCHANGED cursor
       ELSE /\ cursor' = [cursor EXCEPT ![Single] = AdvanceCursor(@, reply[Single].next)]
            /\ pc' = "request"
            /\ UNCHANGED result
    /\ UNCHANGED <<handleVars, lookupVars, initVars, pattern, count, store, enumErr, wg, mu, firstErr,
                   wpc, reply, werr, requests, replies, delivered, firstFailer>>

Worker(s) ==
    \/ WorkerScanFail(s)
    \/ WorkerScan(s)
    \/ WorkerFnFail(s)
    \/ WorkerFnOk(s)
    \/ WorkerLock(s)
    \/ WorkerRecord(s)
    \/ WorkerUnlock(s)
    \/ WorkerExit(s)

Caller ==
    \/ ForEachMasterFail
    \/ ForEachMasterStart
    \/ (\E s \in Shards : Launch(s))
    \/ ForEachMasterReturn
    \/ ClusterReturn
    \/ SingleStart
    \/ SingleScanFail
    \/ SingleScan
    \/ SingleFnFail
    \/ SingleFnOk

Next == Caller \/ (\E s \in Shards : Worker(s))

Spec == Init /\ [][Next]_vars

(***************************************************************************)
(* Type and Get.  Each routes by config.IsCluster to ClusterClient or to   *)
(* Client, sends one request and turns the reply into its result.          *)
(***************************************************************************)
Type(key, fail) ==
    /\ Routed(config, Client, ClusterClient) # NoHandle
    /\ LET r == TypeReply(kv[key], fail)
       IN /\ call' = [op |-> "Type", key |-> key, reply |-> r]
          /\ out' = TypeResult(key, r)
    /\ UNCHANGED <<handleVars, scanVars, initVars, kv>>

Get(key, fail) ==
    /\ Routed(config, Client, ClusterClient) # NoHandle
    /\ LET r == GetReply(kv[key], fail)
       IN /\ call' = [op |-> "Get", key |-> key, reply |-> r]
          /\ out' = GetResult(key, r)
    /\ UNCHANGED <<handleVars, scanVars, initVars, kv>>

LookupInit ==
    /\ config \in [IsCluster : BOOLEAN]
    /\ Initialised(config.IsCluster)
    /\ kv \in [Keys -> Entries]
    /\ store = StoreOf(config.IsCluster, {k \in Keys : kv[k] # Absent}, 1, FALSE)
    /\ pattern = "*"
    /\ count = 1
    /\ call = NoCall
    /\ out = NoOut
    /\ ScanIdle

LookupNext ==
    \/ \E key \in Keys, fail \in BOOLEAN : Type(key, fail)
    \/ \E key \in Keys, fail \in BOOLEAN : Get(key, fail)

LookupSpec == LookupInit /\ [][LookupNext]_vars

(***************************************************************************)
(* Scheduling: the goroutine that called Scan and every launched worker    *)
(* keep running.                                                           *)
(***************************************************************************)
\* The cursor a store returns does not depend on the pattern (MATCH filters
\* the keys of a reply, not the buckets visited), so the runs are taken with
\* the pattern that keeps every key.
FairInit == Init /\ pattern = "*"

FairSpec ==
    FairInit /\ [][Next]_vars /\ WF_vars(Caller) /\ \A s \in Shards : WF_vars(Worker(s))

(***************************************************************************)
(* The life of the package state.  The process starts with the zero        *)
(* configuration and nil handles; the host calls InitRedisConfig and       *)
(* InitRedisClient in any order and any number of times, then issues an    *)
(* operation, which is routed by the cluster flag as it is at that moment. *)
(***************************************************************************)
MaxInits == 2       \* largest number of InitRedisClient calls in a run

\* viper.Unmarshal(&config): decodes the file into the package variable in
\* place, so a failed decode leaves it as it was or already overwritten.
Decoded(old, file, decodeOk) == IF decodeOk THEN {file} ELSE {old, file}

InitRedisConfig(readOk, decodeOk, fileFlag) ==
    /\ pc = "start"
    /\ call = NoCall
    /\ IF ~readOk
       THEN /\ loadErr' = "failed to read config file"
            /\ config' = config
       ELSE /\ loadErr' = IF decodeOk THEN "nil" ELSE "failed to unmarshal config"
            /\ config' \in Decoded(config, [IsCluster |-> fileFlag], decodeOk)
    /\ UNCHANGED <<Client, ClusterClient, built, lastInit, scanVars, lookupVars>>

initSingleClient(probeOk) ==
    /\ Client' = Publish(Client, Handle("single", built + 1), probeOk)
    /\ ClusterClient' = ClusterClient

initClusterClient(probeOk) ==
    /\ Client' = Publish(Client, Handle("cluster", built + 1), probeOk)
    /\ ClusterClient' = ClusterHandleOf(ClusterClient, Client')

InitRedisClient(probeOk) ==
    /\ pc = "start"
    /\ call = NoCall
    /\ built < MaxInits
    /\ IF config.IsCluster THEN initClusterClient(probeOk) ELSE initSingleClient(probeOk)
    /\ built' = built + 1
    /\ lastInit' = [made |-> TRUE, cluster |-> config.IsCluster, probeOk |-> probeOk,
                    err |-> InitErr(config.IsCluster, probeOk), id |-> built + 1]
    /\ UNCHANGED <<config, loadErr, scanVars, lookupVars>>

\* An operation routed to a nil handle: the method call dereferences nil and
\* the process panics.
NilHandlePanic ==
    /\ pc = "start"
    /\ call = NoCall
    /\ Routed(config, Client, ClusterClient) = NoHandle
    /\ pc' = "panicked"
    /\ UNCHANGED <<handleVars, initVars, lookupVars, pattern, count, store, result, enumErr,
                   wg, mu, firstErr, wpc, cursor, reply, werr, requests, replies,
                   delivered, firstFailer>>

\* Both deployments hold the same data: the single node all of it, every
\* master of the cluster the keys it owns.
LifeStore(content, b) ==
    [n \in Nodes |->
        IF n = Single THEN Layout(content, b, FALSE)
        ELSE Layout({k \in content : Owner(k) = n}, b, FALSE)]

LifeKv == [k \in Keys |-> IF k = KeyOrder[1] THEN StringEntry("v1")
                          ELSE IF k = KeyOrder[2] THEN ListEntry ELSE Absent]

LifeInit ==
    /\ config = [IsCluster |-> FALSE]
    /\ Client = NoHandle
    /\ ClusterClient = NoHandle
    /\ built = 0
    /\ lastInit = NoInit
    /\ loadErr = "nil"
    /\ kv = LifeKv
    /\ store = LifeStore({k \in Keys : kv[k] # Absent}, 1)
    /\ pattern = "*"
    /\ count = 1
    /\ call = NoCall
    /\ out = NoOut
    /\ ScanIdle

Operation ==
    \/ call = NoCall /\ Next
    \/ pc = "start" /\ call = NoCall /\ LookupNext
    \/ NilHandlePanic

LifeNext ==
    \/ \E readOk \in BOOLEAN, decodeOk \in BOOLEAN, fileFlag \in BOOLEAN :
          InitRedisConfig(readOk, decodeOk, fileFlag)
    \/ \E probeOk \in BOOLEAN : InitRedisClient(probeOk)
    \/ Operation

LifeSpec == LifeInit /\ [][LifeNext]_vars

(***************************************************************************)
(* Vocabulary of the properties.                                           *)
(***************************************************************************)
Returned == pc = "returned"

ScanNodes == IF config.IsCluster THEN Shards ELSE {Single}

Occurrences(seq, k) == Len(SelectSeq(seq, LAMBDA x : x = k))

RECURSIVE SumOver(_, _, _)
SumOver(S, seqOf, k) ==
    IF S = {} THEN 0
    ELSE LET n == CHOOSE m \in S : TRUE
         IN Occurrences(seqOf[n], k) + SumOver(S \ {n}, seqOf, k)

\* how often key k was passed to fn, over all batches of all scanned nodes
TimesDelivered(k) ==
    SumOver(ScanNodes, [n \in Nodes |-> Flatten(delivered[n])], k)

\* how often a full iteration of the scanned nodes visits key k
TimesVisited(k) ==
    SumOver(ScanNodes, [n \in Nodes |-> Flatten(store[n])], k)

Content == {k \in Keys : TimesVisited(k) > 0}

Failed == {n \in ScanNodes : werr[n] # NoError}

FnFailed == {n \in ScanNodes : werr[n] = FnErr(n)}

(***************************************************************************)
(* C1 as stated: a Scan that returns success has passed to on-batch every  *)
(* key of the store that matches the pattern exactly once, and no other    *)
(* key.  Violated: the store may return a key twice during one iteration,  *)
(* and Scan passes on every occurrence.                                    *)
(***************************************************************************)
C1_ExactlyOnce ==
    (Returned /\ result = NoError) =>
        \A k \in Keys :
            TimesDelivered(k) = IF k \in Content /\ Matches(k, pattern) THEN 1 ELSE 0

(***************************************************************************)
(* C1 amended: a Scan that returns success has passed to on-batch exactly  *)
(* the keys the store returned, each occurrence once: every key of the     *)
(* store that matches the pattern at least once (as often as the store's   *)
(* iteration visits it, so exactly once when the store returns no key      *)
(* twice), and no key that does not match.                                 *)
(***************************************************************************)
C1_DeliversStoreOutput ==
    (Returned /\ result = NoError) =>
        \A k \in Keys :
            /\ Matches(k, pattern) => TimesDelivered(k) = TimesVisited(k)
            /\ (k \in Content /\ Matches(k, pattern)) => TimesDelivered(k) >= 1
            /\ ~Matches(k, pattern) => TimesDelivered(k) = 0
            /\ TimesVisited(k) = 1 =>
                   TimesDelivered(k) = IF Matches(k, pattern) THEN 1 ELSE 0

C1_Witness ==
    /\ Returned /\ result = NoError /\ config.IsCluster
    /\ \A s \in Shards : Len(delivered[s]) >= 1
    /\ \E s \in Shards : Len(delivered[s]) >= 2
    /\ \E k \in Keys : TimesDelivered(k) = 1
    /\ \E k \in Content : ~Matches(k, pattern)

(***************************************************************************)
(* C2 as stated: if on-batch fails on any call, Scan returns that same     *)
(* failure.  Violated in cluster mode when another worker has recorded its *)
(* error first.                                                            *)
(***************************************************************************)
C2_ReturnsThatFailure ==
    Returned => \A n \in FnFailed : result = FnErr(n)

(***************************************************************************)
(* C2 amended: if on-batch fails on any call, Scan returns a failure, and  *)
(* the shard whose call failed sends no further scan request and makes no  *)
(* further on-batch call; the failure returned is that same failure in     *)
(* single-node mode, and in cluster mode when that worker is the first to  *)
(* record an error (otherwise it is the error recorded first).             *)
(***************************************************************************)
C2_FnFailureStopsShard ==
    /\ [](Returned =>
            \A n \in FnFailed :
                /\ result # NoError
                /\ ~config.IsCluster => result = FnErr(n)
                /\ config.IsCluster => result = werr[firstFailer]
                /\ (config.IsCluster /\ firstFailer = n) => result = FnErr(n))
    /\ [][\A n \in FnFailed :
            /\ requests'[n] = requests[n]
            /\ delivered'[n] = delivered[n]
            /\ werr'[n] = werr[n]]_vars

C2_Witness ==
    /\ Returned /\ config.IsCluster
    /\ \E n \in FnFailed :
          /\ result = FnErr(n)
          /\ reply[n].next # 0
          /\ \E m \in Shards : m # n /\ Len(delivered[m]) > Len(delivered[n])

(***************************************************************************)
(* C3: in cluster mode, when one worker failed Scan returns its error, and *)
(* when several failed Scan returns the error of one of them: never        *)
(* success, never an error no worker raised.                               *)
(***************************************************************************)
C3_ReturnsAWorkerError ==
    (Returned /\ config.IsCluster /\ Failed # {}) =>
        /\ result # NoError
        /\ result \in {werr[s] : s \in Failed}
        /\ \A s \in Failed : Failed = {s} => result = werr[s]

C3_Witness ==
    /\ Returned /\ config.IsCluster
    /\ Cardinality(Failed) >= 2
    /\ \E s \in Failed : werr[s] # result

(***************************************************************************)
(* C4: the first-error slot is write-once.  It is empty until the first    *)
(* failing worker that acquires the lock stores its error, it never        *)
(* changes afterwards, and Scan returns the error of that first worker.    *)
(***************************************************************************)
C4_FirstErrorWriteOnce ==
    /\ [](firstFailer = 0 => firstErr = NoError)
    /\ [](firstErr # NoError => firstFailer \in Shards /\ firstErr = werr[firstFailer])
    /\ []((Returned /\ firstFailer # 0) => result = werr[firstFailer])
    /\ [][firstErr # NoError => firstErr' = firstErr]_vars

C4_Witness ==
    /\ Returned /\ config.IsCluster
    /\ firstFailer # 0 /\ result = werr[firstFailer]
    /\ \E s \in Failed : s # firstFailer /\ werr[s].kind # result.kind

(***************************************************************************)
(* C5: in cluster mode Scan launches one worker per master and returns     *)
(* only after every launched worker has terminated: the WaitGroup counts   *)
(* the running workers, the slot is read with no worker running, and after *)
(* the return there is no store request and no on-batch call.              *)
(***************************************************************************)
Running == {s \in Shards : wpc[s] \notin {"idle", "done"}}

C5_ReturnsAfterWorkers ==
    /\ [](config.IsCluster => wg = Cardinality(Running))
    /\ []((config.IsCluster /\ pc = "wait" /\ enumErr = NoError) =>
             \A s \in Shards : wpc[s] # "idle")
    /\ []((config.IsCluster /\ Returned) =>
             /\ Running = {}
             /\ enumErr = NoError => \A s \in Shards : wpc[s] = "done")
    /\ [][Returned => (requests' = requests /\ delivered' = delivered)]_vars

C5_Witness ==
    /\ Returned /\ config.IsCluster
    /\ \A s \in Shards : wpc[s] = "done" /\ Len(requests[s]) >= 1
    /\ \E s \in Shards : Len(delivered[s]) >= 2

(***************************************************************************)
(* C6: Scan returns success only if every scanned shard reached the zero   *)
(* cursor with no store error and no on-batch failure in any round and, in *)
(* cluster mode, the enumeration of the masters reported no error.         *)
(***************************************************************************)
C6_SuccessMeansNoFailure ==
    (Returned /\ result = NoError) =>
        /\ \A n \in ScanNodes :
              /\ werr[n] = NoError
              /\ Len(requests[n]) >= 1
              /\ Len(replies[n]) = Len(requests[n])
              /\ Len(delivered[n]) = Len(requests[n])
              /\ reply[n].next = 0
        /\ enumErr = NoError

C6_Witness ==
    /\ Returned /\ config.IsCluster /\ result # NoError
    /\ \E s \in Shards : werr[s] = StoreErr(s)
    /\ \E s \in Shards : werr[s] = NoError /\ wpc[s] = "done" /\ reply[s].next = 0

(***************************************************************************)
(* C7: Scan terminates.  With the caller and every launched worker kept    *)
(* running, every store request answered and every cursor sequence ending  *)
(* at the zero cursor or an error, every call of Scan eventually returns,  *)
(* in both modes, also when workers fail.                                  *)
(***************************************************************************)
C7_ScanReturns == <>Returned

C7_Witness ==
    /\ Returned /\ config.IsCluster
    /\ Failed = Shards
    /\ \E s \in Shards : Len(requests[s]) >= 2

(***************************************************************************)
(* C8: Type on a key that does not exist (the store answers "none" with no *)
(* error) returns an empty type name and a not-found error, in both modes; *)
(* a transport error gives a different error, and "none" is never a        *)
(* successful result.                                                      *)
(***************************************************************************)
C8_TypeOfMissingKey ==
    call.op = "Type" =>
        /\ (call.reply.err = "" /\ call.reply.val = "none") =>
              /\ kv[call.key] = Absent
              /\ out.val = ""
              /\ out.err = LookupErr("key does not exist", call.key, "")
        /\ call.reply.err # "" =>
              /\ out.val = ""
              /\ out.err = LookupErr("failed to get type of key", call.key, call.reply.err)
              /\ out.err.msg # "key does not exist"
        /\ out.err = NoLookupErr => (out.val # "none" /\ out.val = kv[call.key].type)

C8_Witness ==
    /\ call.op = "Type" /\ config.IsCluster
    /\ kv[call.key] = Absent
    /\ call.reply = [val |-> "none", err |-> ""]
    /\ out.err.msg = "key does not exist"

(***************************************************************************)
(* C9: Get on an existing key returns exactly the value the store holds,   *)
(* in both modes; on any store failure, a missing key included, it returns *)
(* an empty value and the same kind of error, which only wraps the store's *)
(* error.                                                                  *)
(***************************************************************************)
C9_GetValueOrStoreError ==
    call.op = "Get" =>
        /\ (kv[call.key].type = "string" /\ call.reply.err = "") =>
              out = [val |-> kv[call.key].val, err |-> NoLookupErr]
        /\ call.reply.err # "" =>
              /\ out.val = ""
              /\ out.err = LookupErr("failed to get value of key", call.key, call.reply.err)
        /\ kv[call.key] = Absent =>
              /\ call.reply.err # ""
              /\ out.val = ""
              /\ out.err.msg = "failed to get value of key"

C9_Witness ==
    /\ call.op = "Get" /\ ~config.IsCluster
    /\ kv[call.key] = Absent
    /\ call.reply.err = "redis: nil"
    /\ out.err.msg = "failed to get value of key"

(***************************************************************************)
(* C10 as stated: every batch passed to on-batch holds at most             *)
(* batch-size-hint keys.  Violated: the count is a hint to the store, the  *)
(* store returns whole buckets, and Scan passes on what it got.            *)
(***************************************************************************)
C10_BatchWithinHint ==
    \A n \in Nodes : \A i \in 1..Len(delivered[n]) : Len(delivered[n][i]) <= count

(***************************************************************************)
(* C10 amended: every batch passed to on-batch holds exactly as many keys  *)
(* as the store returned for that round (Scan neither splits nor cuts a    *)
(* reply), so at most batch-size-hint keys whenever the store's reply      *)
(* does.                                                                   *)
(***************************************************************************)
C10_BatchSizeIsReplySize ==
    \A n \in Nodes :
        /\ Len(delivered[n]) = Len(replies[n])
        /\ \A i \in 1..Len(delivered[n]) :
              /\ Len(delivered[n][i]) = Len(replies[n][i])
              /\ Len(replies[n][i]) <= count => Len(delivered[n][i]) <= count

C10_Witness ==
    \E n \in Nodes : \E i \in 1..Len(delivered[n]) :
        /\ Len(delivered[n][i]) > count
        /\ delivered[n][i] = replies[n][i]

(***************************************************************************)
(* C12: each shard's scan is independent.  Every shard starts at cursor    *)
(* zero, the cursor a shard sends in round n+1 is the next-cursor the      *)
(* store returned to that shard in round n, and no step of another shard's *)
(* worker changes a shard's cursor, position, reply or error.              *)
(***************************************************************************)
C12_ShardCursorsIndependent ==
    /\ [](\A n \in Nodes : \A i \in 1..Len(requests[n]) :
            requests[n][i] =
                IF i = 1 THEN 0
                ELSE ScanReply(store[n], requests[n][i - 1], pattern, count).next)
    /\ [][\A t \in Shards : Worker(t) =>
            \A s \in Shards \ {t} :
                /\ cursor'[s] = cursor[s]
                /\ wpc'[s] = wpc[s]
                /\ reply'[s] = reply[s]
                /\ werr'[s] = werr[s]
                /\ requests'[s] = requests[s]
                /\ delivered'[s] = delivered[s]]_vars

C12_Witness ==
    /\ config.IsCluster
    /\ \E s \in Shards :
          /\ Len(requests[s]) >= 2 /\ requests[s][2] # 0
          /\ wpc[s] = "request"
          /\ \E t \in Shards \ {s} : wpc[t] = "done" /\ werr[t] # NoError

(***************************************************************************)
(* C13: no retry after a store error.  When a scan request of a shard      *)
(* fails, on-batch is not called for that round, the shard sends no        *)
(* further request, the cursor that failed is requested only once, and in  *)
(* single-node mode Scan returns that store error.                         *)
(***************************************************************************)
StoreFailed == {n \in Nodes : werr[n] = StoreErr(n)}

C13_NoRetryAfterStoreError ==
    /\ [](\A n \in StoreFailed :
            /\ Len(delivered[n]) = Len(requests[n]) - 1
            /\ Len(replies[n]) = Len(requests[n]) - 1
            /\ \A i \in 1..(Len(requests[n]) - 1) :
                  requests[n][i] # requests[n][Len(requests[n])])
    /\ []((Returned /\ Single \in StoreFailed) => result = StoreErr(Single))
    /\ [](\A n \in Nodes : Len(requests[n]) - Len(delivered[n]) \in {0, 1})
    /\ [](\A n \in Nodes \ StoreFailed : Len(requests[n]) = Len(delivered[n]))
    /\ [][\A n \in StoreFailed :
            requests'[n] = requests[n] /\ delivered'[n] = delivered[n]]_vars

C13_Witness ==
    /\ Returned /\ config.IsCluster
    /\ \E s \in StoreFailed :
          /\ Len(requests[s]) >= 2
          /\ ScanReply(store[s], requests[s][Len(requests[s])], pattern, count).next # 0
          /\ Len(delivered[s]) = Len(requests[s]) - 1

(***************************************************************************)
(* C14: the workers' accesses to the first-error slot are mutually         *)
(* exclusive.  At most one worker is between mu.Lock() and mu.Unlock(),    *)
(* it is the one the mutex records, and the slot changes only in a step of *)
(* the worker that holds the mutex.                                        *)
(***************************************************************************)
InCritical == {s \in Shards : wpc[s] \in {"locked", "recorded"}}

C14_SlotUnderMutex ==
    /\ [](Cardinality(InCritical) <= 1)
    /\ [](\A s \in Shards : s \in InCritical <=> mu = s)
    /\ [][firstErr' # firstErr =>
            /\ mu \in Shards
            /\ wpc[mu] = "locked"
            /\ WorkerRecord(mu)
            /\ firstErr' = werr[mu]]_vars

C14_Witness ==
    /\ \E s \in Shards : wpc[s] = "locked" /\ mu = s
    /\ \E t \in Shards : wpc[t] = "lock"
    /\ firstErr = NoError

(***************************************************************************)
(* C15: within one shard, and in single-node mode, the rounds are          *)
(* sequential: on-batch of round n is called after the reply of round n    *)
(* and has returned before the request of round n+1.  A worker holds no    *)
(* lock while its on-batch call is in progress, so calls of different      *)
(* shards overlap (the witness: two calls in progress at once).            *)
(***************************************************************************)
InCallback == {s \in Shards : wpc[s] = "callback"}
            \cup (IF pc = "callback" THEN {Single} ELSE {})

C15_RoundsSequential ==
    /\ \A n \in InCallback :
          /\ Len(requests[n]) = Len(delivered[n])
          /\ Len(replies[n]) = Len(delivered[n])
          /\ delivered[n][Len(delivered[n])] = FnArg(reply[n].keys)
          /\ n \in Shards => mu # n
    /\ \A s \in Shards : wpc[s] = "request" =>
          /\ Len(requests[s]) = Len(delivered[s])
          /\ cursor[s] = IF requests[s] = <<>> THEN 0 ELSE reply[s].next
    /\ mu # 0 => mu \in InCritical

C15_Witness ==
    /\ Cardinality(InCallback) >= 2
    /\ mu = 0
    /\ \E s, t \in InCallback : Len(delivered[s]) > Len(delivered[t])

(***************************************************************************)
(* C17: in cluster mode the failure of one worker does not stop the        *)
(* others.  With an error already in the first-error slot, a worker that   *)
(* is about to scan can scan and call on-batch, and a worker ends only at  *)
(* its own zero cursor or on its own failure.                              *)
(***************************************************************************)
C17_OthersKeepScanning ==
    /\ [](firstErr # NoError =>
            \A s \in Shards : wpc[s] = "request" => ENABLED WorkerScan(s))
    /\ [][\A s \in Shards : (wpc[s] # "exit" /\ wpc'[s] = "exit") =>
            \/ werr[s] # NoError
            \/ (wpc[s] = "callback" /\ reply[s].next = 0)]_vars
    /\ [][\A s \in Shards : (wpc[s] = "callback" /\ wpc'[s] = "request") =>
            (reply[s].next # 0 /\ cursor'[s] = reply[s].next)]_vars

C17_Witness ==
    /\ firstErr # NoError
    /\ \E s \in Shards :
          /\ wpc[s] = "request"
          /\ Len(delivered[s]) >= 1
          /\ ENABLED WorkerScan(s)

(***************************************************************************)
(* C18: on-batch is called once per successful store round with the batch  *)
(* of that round, before the returned cursor is tested: the batch that     *)
(* comes with the zero cursor and an empty batch are delivered like any    *)
(* other, and a shard has as many on-batch calls as successful rounds.     *)
(***************************************************************************)
C18_OneCallPerRound ==
    \A n \in Nodes :
        /\ delivered[n] = replies[n]
        /\ \A i \in 1..Len(delivered[n]) :
              delivered[n][i] = ScanReply(store[n], requests[n][i], pattern, count).keys
        /\ Len(replies[n]) = Len(requests[n]) - (IF n \in StoreFailed THEN 1 ELSE 0)
        /\ (n \in Shards /\ wpc[n] = "done" /\ werr[n] = NoError) =>
              /\ Len(delivered[n]) = Len(requests[n])
              /\ Len(delivered[n]) >= 1
              /\ ScanReply(store[n], requests[n][Len(requests[n])], pattern, count).next = 0

C18_Witness ==
    /\ Returned /\ result = NoError /\ config.IsCluster
    /\ \E s \in Shards :
          /\ Len(delivered[s]) >= 2
          /\ delivered[s][Len(delivered[s])] # <<>>
    /\ \E s \in Shards : store[s] # <<>> /\ \E i \in 1..Len(delivered[s]) : delivered[s][i] = <<>>

(***************************************************************************)
(* Vocabulary of the claims about the package state.                       *)
(***************************************************************************)
InitStep ==
    \/ \E readOk \in BOOLEAN, decodeOk \in BOOLEAN, fileFlag \in BOOLEAN :
          InitRedisConfig(readOk, decodeOk, fileFlag)
    \/ \E probeOk \in BOOLEAN : InitRedisClient(probeOk)

KindOf(isCluster) == IF isCluster THEN "cluster" ELSE "single"

\* An operation routed by the current flag finds the handle of that mode.
HandleOfModeSet ==
    IF config.IsCluster
    THEN ClusterClient # NoHandle /\ ClusterClient.kind = "cluster" /\ ClusterClient = Client
    ELSE Client.kind = "single"

(***************************************************************************)
(* C11: InitRedisClient returns nil exactly when the probe of the client   *)
(* it built succeeds; when the probe fails it returns the connection error *)
(* of the mode, and the mode of the client it built is the one the         *)
(* configuration's cluster flag chose.                                     *)
(***************************************************************************)
C11_InitResultIsProbeResult ==
    lastInit.made =>
        /\ (lastInit.err = "nil") <=> lastInit.probeOk
        /\ ~lastInit.probeOk =>
              lastInit.err = (IF lastInit.cluster THEN "failed to connect to Redis Cluster"
                              ELSE "failed to connect to Redis")
        /\ Client.kind = KindOf(lastInit.cluster)

C11_Witness ==
    /\ built = 2
    /\ lastInit.made /\ lastInit.cluster /\ ~lastInit.probeOk
    /\ lastInit.err = "failed to connect to Redis Cluster"
    /\ Client.kind = "cluster"
    /\ loadErr = "nil"

(***************************************************************************)
(* C16: every step of Scan, Type and Get leaves the shared handles and the *)
(* configuration as they are, and every step that changes one of them is a *)
(* step of InitRedisConfig or InitRedisClient.                             *)
(***************************************************************************)
C16_OperationsLeaveSharedState ==
    [][/\ Operation => UNCHANGED handleVars
       /\ handleVars' # handleVars => InitStep]_vars

C16_Witness ==
    /\ built = 2
    /\ ClusterClient = Handle("cluster", 1)
    /\ Client = Handle("single", 2)
    /\ config.IsCluster
    /\ Returned /\ result # NoError

(***************************************************************************)
(* C19: once InitRedisClient has been called, the handle of the mode the   *)
(* current cluster flag routes to is set: in cluster mode the cluster      *)
(* handle is set and is the shared handle, in single-node mode the shared  *)
(* handle is a single-node client.                                         *)
(***************************************************************************)
C19_RoutedHandleSet == lastInit.made => HandleOfModeSet

\* The flag was reloaded as cluster after a single-node initialisation: the
\* operation was routed to the nil cluster handle.
C19_Witness ==
    /\ pc = "panicked"
    /\ lastInit.made /\ ~lastInit.cluster /\ lastInit.probeOk
    /\ config.IsCluster
    /\ loadErr = "nil"
    /\ Client.kind = "single" /\ ClusterClient = NoHandle

(***************************************************************************)
(* C20: when the probe of InitRedisClient fails, the call returns an error *)
(* and the shared handle (in cluster mode the cluster handle too) is the   *)
(* client that call built, not the one that was there before the call.     *)
(***************************************************************************)
C20_PublishedBeforeProbe ==
    (lastInit.made /\ ~lastInit.probeOk) =>
        /\ lastInit.err # "nil"
        /\ Client = Handle(KindOf(lastInit.cluster), lastInit.id)
        /\ lastInit.id = built
        /\ lastInit.cluster => ClusterClient = Client

C20_Witness ==
    /\ built = 2
    /\ lastInit.made /\ ~lastInit.probeOk /\ ~lastInit.cluster
    /\ Client = Handle("single", 2)
    /\ ClusterClient = Handle("cluster", 1)
    /\ Returned /\ result = NoError

====
